---- MODULE Spec2Model ----
(***************************************************************************)
(* A model of ghwalk.Walk (src/ghwalk.go): the walk of a remote repository *)
(* tree through the "get contents" call of the GitHub client.  Walk, walk, *)
(* stat and readDirNames are unfolded into an explicit call stack; each    *)
(* remote call and each invocation of the visitor (walkFn) is one step,    *)
(* so that the remote tree can change and the context can be cancelled     *)
(* between two remote calls.                                               *)
(*                                                                         *)
(* A path is the sequence of its components: filepath.Join appends a       *)
(* component, filepath.Dir drops the last one, filepath.Base is the last.  *)
(***************************************************************************)
EXTENDS Integers, Sequences, FiniteSets, TLC

VARIABLES
    tree,       \* the remote tree: path -> "dir" | "file" | "symlink" (the root <<>> is implicit)
    start,      \* the path argument of Walk
    pc,         \* position in Walk: "L112", "L114", "L116", "L119", "done"
    stack,      \* the frames of the recursive walk(), innermost last
    werr,       \* the err variable of Walk
    ret,        \* the value Walk returned (meaningful when pc = "done")
    cancelled,  \* ctx is done: every remote call fails from now on
    fails,      \* number of remote calls that failed in transport
    changes,    \* number of changes made to the remote tree during the walk
    log,        \* history: the remote calls and visitor invocations, in order
    opt         \* the options of the walk the specification describes: [reverse, filter]

vars == <<tree, start, pc, stack, werr, ret, cancelled, fails, changes, log, opt>>

----------------------------------------------------------------------------
(* Bounds *)

MaxFail == 1
MaxChanges == 1

----------------------------------------------------------------------------
(* Names and their byte strings; sort.Strings compares bytewise. *)

Chars(name) ==
    CASE name = "a"            -> <<97>>
      [] name = "b"            -> <<98>>
      [] name = "c"            -> <<99>>
      [] name = "dir"          -> <<100, 105, 114>>
      [] name = "link_dir"     -> <<108, 105, 110, 107, 95, 100, 105, 114>>
      [] name = "testdata"     -> <<116, 101, 115, 116, 100, 97, 116, 97>>
      [] name = "non_existent" -> <<110, 111, 110, 95, 101, 120, 105, 115, 116, 101, 110, 116>>
      [] name = "x"            -> <<120>>

RECURSIVE BytesLess(_, _)
BytesLess(s, t) ==
    IF t = <<>> THEN FALSE
    ELSE IF s = <<>> THEN TRUE
    ELSE IF Head(s) # Head(t) THEN Head(s) < Head(t)
    ELSE BytesLess(Tail(s), Tail(t))

StrLess(a, b) == BytesLess(Chars(a), Chars(b))

RECURSIVE Insert(_, _)
Insert(name, sorted) ==
    IF sorted = <<>> THEN <<name>>
    ELSE IF StrLess(Head(sorted), name) THEN <<Head(sorted)>> \o Insert(name, Tail(sorted))
    ELSE <<name>> \o sorted

RECURSIVE SortStringsFrom(_, _)
SortStringsFrom(entries, acc) ==
    IF entries = <<>> THEN acc
    ELSE SortStringsFrom(Tail(entries), Insert(Head(entries), acc))

\* a walk that keeps the order of the remote listing
SortStringsNone(entries) == entries

SortStrings(entries) == SortStringsFrom(entries, <<>>)

----------------------------------------------------------------------------
(* Paths *)

Join(path, name) == Append(path, name)
Dir(path) == SubSeq(path, 1, Len(path) - 1)
Base(path) == path[Len(path)]

IsPrefix(p, q) == Len(p) <= Len(q) /\ SubSeq(q, 1, Len(p)) = p
IsProperPrefix(p, q) == Len(p) < Len(q) /\ IsPrefix(p, q)

----------------------------------------------------------------------------
(* Errors and file infos *)

Nil == [kind |-> "nil", path |-> <<>>]
SkipDir == [kind |-> "SkipDir", path |-> <<>>]
UserErr == [kind |-> "User", path |-> <<>>]
\* the message names the listed parent instead of the path asked for
NotFoundParent(path) == [kind |-> "NotFound", path |-> SubSeq(path, 1, Len(path) - 1)]

NotFound(path) == [kind |-> "NotFound", path |-> path]
\* errors of the client: the request for `path` failed
TransportErr(path) == [kind |-> "Transport", path |-> path]
Http404(path) == [kind |-> "Http404", path |-> path]
CtxErr(path) == [kind |-> "Canceled", path |-> path]

NilInfo == [Type |-> "nil", Name |-> "", Path |-> <<>>]
newFileInfo(c, path) == [Type |-> c.Type, Name |-> c.Name, Path |-> path]
\* a symlink taken for a directory
IsDirOrLink(f) == f.Type \in {"dir", "symlink"}

IsDir(f) == f.Type = "dir"

----------------------------------------------------------------------------
(* The remote tree and the client *)

Nodes(t) == DOMAIN t
Children(t, path) == {p \in Nodes(t) : Len(p) = Len(path) + 1 /\ Dir(p) = path}
IsRemoteDir(t, path) == path = <<>> \/ (path \in Nodes(t) /\ t[path] = "dir")

Perms(S) == {f \in [1..Cardinality(S) -> S] : \A i, j \in 1..Cardinality(S) : f[i] = f[j] => i = j}

Listings(t, path) ==
    {[i \in 1..Cardinality(Children(t, path)) |-> [Name |-> Base(f[i]), Type |-> t[f[i]]]] :
        f \in Perms(Children(t, path))}

\* client.Repositories.GetContents: the possible results [err, dircontent]
GetContents(path) ==
    IF cancelled THEN {[err |-> CtxErr(path), dircontent |-> <<>>]}
    ELSE (IF fails < MaxFail THEN {[err |-> TransportErr(path), dircontent |-> <<>>]} ELSE {})
         \cup (IF IsRemoteDir(tree, path)
               THEN {[err |-> Nil, dircontent |-> l] : l \in Listings(tree, path)}
               ELSE IF path \in Nodes(tree)
               THEN {[err |-> Nil, dircontent |-> <<>>]}   \* a single file: no directory content
               ELSE {[err |-> Http404(path), dircontent |-> <<>>]})

Failed(res) == IF res.err.kind = "Transport" THEN 1 ELSE 0

----------------------------------------------------------------------------
(* stat and readDirNames: the possible results, given the client's *)

Matches(dircontent, path) == {i \in 1..Len(dircontent) : dircontent[i].Name = Base(path)}

\* every failure of the client reported as a missing path
statResultWrapped(path, res) ==
    IF res.err = Nil /\ Matches(res.dircontent, path) # {}
    THEN [info |-> newFileInfo(res.dircontent[CHOOSE i \in Matches(res.dircontent, path) :
                                    \A j \in Matches(res.dircontent, path) : i <= j], path),
          err |-> Nil]
    ELSE [info |-> NilInfo, err |-> NotFound(path)]

\* a name missing from the listing of the parent is taken for a file that is there
statResultStale(path, res) ==
    IF res.err # Nil THEN [info |-> NilInfo, err |-> res.err]
    ELSE IF Matches(res.dircontent, path) # {}
    THEN [info |-> newFileInfo(res.dircontent[CHOOSE i \in Matches(res.dircontent, path) :
                                    \A j \in Matches(res.dircontent, path) : i <= j], path),
          err |-> Nil]
    ELSE [info |-> [Type |-> "file", Name |-> Base(path), Path |-> path], err |-> Nil]

statResult(path, res) ==
    IF res.err # Nil THEN [info |-> NilInfo, err |-> res.err]
    ELSE IF Matches(res.dircontent, path) # {}
    THEN [info |-> newFileInfo(res.dircontent[CHOOSE i \in Matches(res.dircontent, path) :
                                    \A j \in Matches(res.dircontent, path) : i <= j], path),
          err |-> Nil]
    ELSE [info |-> NilInfo, err |-> NotFound(path)]

\* the test path == "" lost: the root is looked up in the listing of the root
\* (filepath.Dir("") and filepath.Base("") are both "."), where no entry has its name
statNoRootCase(path) ==
    IF path = <<>>
    THEN {[info |-> NilInfo, err |-> IF res.err # Nil THEN res.err ELSE NotFound(path),
           failed |-> Failed(res), remote |-> TRUE,
           rerr |-> res.err, found |-> FALSE] : res \in GetContents(<<>>)}
    ELSE {[info |-> statResult(path, res).info, err |-> statResult(path, res).err,
           failed |-> Failed(res), remote |-> TRUE,
           rerr |-> res.err, found |-> Matches(res.dircontent, path) # {}] :
                res \in GetContents(Dir(path))}

\* the result of stat, with what the client answered (rerr, found) for the history
stat(path) ==
    IF path = <<>>
    THEN {[info |-> NilInfo, err |-> Nil, failed |-> 0, remote |-> FALSE,
           rerr |-> Nil, found |-> FALSE]}
    ELSE {[info |-> statResult(path, res).info, err |-> statResult(path, res).err,
           failed |-> Failed(res), remote |-> TRUE,
           rerr |-> res.err, found |-> Matches(res.dircontent, path) # {}] :
                res \in GetContents(Dir(path))}

readDirNames(path) ==
    {[names |-> IF res.err # Nil THEN <<>>
                ELSE SortStrings([i \in 1..Len(res.dircontent) |-> res.dircontent[i].Name]),
      err |-> res.err, failed |-> Failed(res)] : res \in GetContents(path)}

----------------------------------------------------------------------------
(* The visitor and the history *)

\* what a WalkFunc may return when called with the error err
VisitorReturns(err) == {Nil, SkipDir, UserErr} \cup {err}

\* the names each enclosing directory has still to iterate, outermost first
Pending(frames) ==
    [k \in 1..Len(frames) |->
        [dir |-> frames[k].path,
         names |-> SubSeq(frames[k].names, frames[k].idx + 1, Len(frames[k].names))]]

\* a remote call made to resolve `path`: its error and, for stat, whether the
\* listing of the parent held the name
RemoteEvent(op, path, err, found) ==
    [ev |-> "remote", op |-> op, path |-> path, info |-> NilInfo, err |-> err,
     ret |-> Nil, rest |-> <<>>, found |-> found, names |-> <<>>]

\* the remote call of readDirNames for `path`, with the names it returned
ListEvent(path, err, names) ==
    [ev |-> "remote", op |-> "list", path |-> path, info |-> NilInfo, err |-> err,
     ret |-> Nil, rest |-> <<>>, found |-> FALSE, names |-> names]

VisitEvent(path, info, err, v, frames) ==
    [ev |-> "visit", op |-> "visit", path |-> path, info |-> info, err |-> err,
     ret |-> v, rest |-> Pending(frames), found |-> FALSE, names |-> <<>>]

----------------------------------------------------------------------------
(* The call stack of walk() *)

\* the range over names starts at the second name
FrameSkipFirst(path, info) ==
    [path |-> path, info |-> info, names |-> <<>>, idx |-> 1, pc |-> "L127",
     err |-> Nil, fileInfo |-> NilInfo]

Frame(path, info) ==
    [path |-> path, info |-> info, names |-> <<>>, idx |-> 0, pc |-> "L127",
     err |-> Nil, fileInfo |-> NilInfo]

Top == stack[Len(stack)]
Callers == SubSeq(stack, 1, Len(stack) - 1)
SetTop(f) == [stack EXCEPT ![Len(stack)] = f]
Running == pc = "L116" /\ stack # <<>>

\* walk() returns v to its caller: the loop of the enclosing walk(), or Walk
Return(v) ==
    IF Len(stack) = 1
    THEN /\ stack' = <<>>
         /\ pc' = "L119"
         /\ werr' = v
    ELSE /\ stack' = [Callers EXCEPT ![Len(stack) - 1].pc = "L153", ![Len(stack) - 1].err = v]
         /\ UNCHANGED <<pc, werr>>

----------------------------------------------------------------------------
(* Initial state *)

TestTree ==
    (<<"testdata">> :> "dir")
    @@ (<<"testdata", "a">> :> "file")
    @@ (<<"testdata", "b">> :> "file")
    @@ (<<"testdata", "dir">> :> "dir")
    @@ (<<"testdata", "dir", "c">> :> "file")
    @@ (<<"testdata", "link_dir">> :> "symlink")

Starts ==
    {<<>>, <<"testdata">>, <<"testdata", "dir">>, <<"testdata", "b">>,
     <<"testdata", "non_existent">>, <<"x", "a">>}

\* WalkOptions holds a token and a ref only, and Walk takes no filter
NoOptions == [reverse |-> FALSE, filter |-> "none"]

Init ==
    /\ tree = TestTree
    /\ start \in Starts
    /\ pc = "L112"
    /\ stack = <<>>
    /\ werr = Nil
    /\ ret = Nil
    /\ cancelled = FALSE
    /\ fails = 0
    /\ changes = 0
    /\ log = <<>>
    /\ opt = NoOptions

----------------------------------------------------------------------------
(* Walk *)

\* the error of stat returned to the caller without asking walkFn
WalkStatDirect ==
    /\ pc = "L112"
    /\ \E r \in stat(start) :
        /\ log' = IF r.remote THEN Append(log, RemoteEvent("stat", start, r.rerr, r.found)) ELSE log
        /\ fails' = fails + r.failed
        /\ IF r.err # Nil
           THEN /\ pc' = "L119"
                /\ werr' = r.err
                /\ UNCHANGED stack
           ELSE /\ pc' = "L116"
                /\ stack' = <<Frame(start, r.info)>>
                /\ UNCHANGED werr
    /\ UNCHANGED <<opt, tree, start, ret, cancelled, changes>>

\* info, err := stat(ctx, owner, repo, path, client, getOpt)
WalkStat ==
    /\ pc = "L112"
    /\ \E r \in stat(start) :
        /\ log' = IF r.remote THEN Append(log, RemoteEvent("stat", start, r.rerr, r.found)) ELSE log
        /\ fails' = fails + r.failed
        /\ IF r.err # Nil
           THEN /\ pc' = "L114"
                /\ werr' = r.err
                /\ UNCHANGED stack
           ELSE /\ pc' = "L116"
                /\ stack' = <<Frame(start, r.info)>>
                /\ UNCHANGED werr
    /\ UNCHANGED <<opt, tree, start, ret, cancelled, changes>>

\* the else lost: walk is called with the nil info after walkFn saw the error
WalkVisitErrNoElse ==
    /\ pc = "L114"
    /\ \E v \in VisitorReturns(werr) :
        /\ log' = Append(log, VisitEvent(start, NilInfo, werr, v, <<>>))
        /\ werr' = v
    /\ pc' = "L116"
    /\ stack' = <<Frame(start, NilInfo)>>
    /\ UNCHANGED <<opt, tree, start, ret, cancelled, fails, changes>>

\* err = walkFn(path, nil, err)
WalkVisitErr ==
    /\ pc = "L114"
    /\ \E v \in VisitorReturns(werr) :
        /\ log' = Append(log, VisitEvent(start, NilInfo, werr, v, <<>>))
        /\ werr' = v
    /\ pc' = "L119"
    /\ UNCHANGED <<opt, tree, start, stack, ret, cancelled, fails, changes>>

\* the test err == SkipDir lost
WalkResultKeep(err) == err

WalkResult(err) == IF err = SkipDir THEN Nil ELSE err

\* if err == SkipDir { return nil }; return err
WalkReturn ==
    /\ pc = "L119"
    /\ ret' = WalkResult(werr)
    /\ pc' = "done"
    /\ UNCHANGED <<opt, tree, start, stack, werr, cancelled, fails, changes, log>>

----------------------------------------------------------------------------
(* walk *)

\* the negation of IsDir lost: directories are taken for leaves
IsLeafInverted(info) == info # NilInfo /\ IsDir(info)

IsLeaf(info) == info # NilInfo /\ ~IsDir(info)

\* if info != nil && !info.IsDir() { return walkFn(path, info, nil) }
walkLeaf ==
    /\ Running
    /\ Top.pc = "L127"
    /\ IsLeaf(Top.info)
    /\ \E v \in VisitorReturns(Nil) :
        /\ log' = Append(log, VisitEvent(Top.path, Top.info, Nil, v, Callers))
        /\ Return(v)
    /\ UNCHANGED <<opt, tree, start, ret, cancelled, fails, changes>>

\* names, err := readDirNames(ctx, owner, repo, path, client, opt)
walkReadDirNames ==
    /\ Running
    /\ Top.pc = "L127"
    /\ ~IsLeaf(Top.info)
    /\ \E r \in readDirNames(Top.path) :
        /\ stack' = SetTop([Top EXCEPT !.names = r.names, !.err = r.err, !.pc = "L132"])
        /\ fails' = fails + r.failed
        /\ log' = Append(log, ListEvent(Top.path, r.err, r.names))
    /\ UNCHANGED <<opt, tree, start, pc, werr, ret, cancelled, changes>>

\* walkFn is called for a directory only when its listing failed
walkVisitDirOnErrorOnly ==
    /\ Running
    /\ Top.pc = "L132"
    /\ IF Top.err = Nil
       THEN /\ stack' = SetTop([Top EXCEPT !.pc = "L144"])
            /\ UNCHANGED <<pc, werr, log>>
       ELSE \E err1 \in VisitorReturns(Top.err) :
            /\ log' = Append(log, VisitEvent(Top.path, Top.info, Top.err, err1, Callers))
            /\ Return(err1)
    /\ UNCHANGED <<opt, tree, start, ret, cancelled, fails, changes>>

\* return err instead of return err1
walkVisitDirReturnsErr ==
    /\ Running
    /\ Top.pc = "L132"
    /\ \E err1 \in VisitorReturns(Top.err) :
        /\ log' = Append(log, VisitEvent(Top.path, Top.info, Top.err, err1, Callers))
        /\ IF Top.err # Nil \/ err1 # Nil
           THEN Return(IF Top.err # Nil THEN Top.err ELSE err1)
           ELSE /\ stack' = SetTop([Top EXCEPT !.pc = "L144"])
                /\ UNCHANGED <<pc, werr>>
    /\ UNCHANGED <<opt, tree, start, ret, cancelled, fails, changes>>

\* err1 := walkFn(path, info, err); if err != nil || err1 != nil { return err1 }
walkVisitDir ==
    /\ Running
    /\ Top.pc = "L132"
    /\ \E err1 \in VisitorReturns(Top.err) :
        /\ log' = Append(log, VisitEvent(Top.path, Top.info, Top.err, err1, Callers))
        /\ IF Top.err # Nil \/ err1 # Nil
           THEN Return(err1)
           ELSE /\ stack' = SetTop([Top EXCEPT !.pc = "L144"])
                /\ UNCHANGED <<pc, werr>>
    /\ UNCHANGED <<opt, tree, start, ret, cancelled, fails, changes>>

\* for _, name := range names { fileInfo, err := stat(..., filepath.Join(path, name), ...)
walkStatChild ==
    /\ Running
    /\ Top.pc = "L144"
    /\ Top.idx < Len(Top.names)
    /\ LET filename == Join(Top.path, Top.names[Top.idx + 1]) IN
       \E r \in stat(filename) :
        /\ log' = Append(log, RemoteEvent("stat", filename, r.rerr, r.found))
        /\ fails' = fails + r.failed
        /\ IF r.err # Nil
           THEN stack' = SetTop([Top EXCEPT !.idx = @ + 1, !.err = r.err,
                                            !.fileInfo = r.info, !.pc = "L148"])
           ELSE stack' = Append(SetTop([Top EXCEPT !.idx = @ + 1, !.err = Nil,
                                                   !.fileInfo = r.info, !.pc = "L152"]),
                                Frame(filename, r.info))
    /\ UNCHANGED <<opt, tree, start, pc, werr, ret, cancelled, changes>>

\* the test err != SkipDir lost: SkipDir ends the loop over the siblings
walkVisitChildErrStops ==
    /\ Running
    /\ Top.pc = "L148"
    /\ \E v \in VisitorReturns(Top.err) :
        /\ log' = Append(log, VisitEvent(Join(Top.path, Top.names[Top.idx]), Top.fileInfo,
                                         Top.err, v, stack))
        /\ IF v # Nil
           THEN Return(v)
           ELSE /\ stack' = SetTop([Top EXCEPT !.pc = "L144"])
                /\ UNCHANGED <<pc, werr>>
    /\ UNCHANGED <<opt, tree, start, ret, cancelled, fails, changes>>

\* if err := walkFn(filename, fileInfo, err); err != nil && err != SkipDir { return err }
walkVisitChildErr ==
    /\ Running
    /\ Top.pc = "L148"
    /\ \E v \in VisitorReturns(Top.err) :
        /\ log' = Append(log, VisitEvent(Join(Top.path, Top.names[Top.idx]), Top.fileInfo,
                                         Top.err, v, stack))
        /\ IF v # Nil /\ v # SkipDir
           THEN Return(v)
           ELSE /\ stack' = SetTop([Top EXCEPT !.pc = "L144"])
                /\ UNCHANGED <<pc, werr>>
    /\ UNCHANGED <<opt, tree, start, ret, cancelled, fails, changes>>

\* every non-nil result of the recursive call ends the loop
PropagatesAll(fileInfo, err) == err # Nil

\* SkipDir is swallowed whatever the kind of the child
PropagatesNoSkip(fileInfo, err) == err # Nil /\ err # SkipDir

\* the test err != SkipDir lost: a directory's result never ends the loop
PropagatesLeafOnly(fileInfo, err) == err # Nil /\ ~IsDir(fileInfo)

Propagates(fileInfo, err) == err # Nil /\ (~IsDir(fileInfo) \/ err # SkipDir)

\* err = walk(...); if err != nil { if !fileInfo.IsDir() || err != SkipDir { return err } }
walkAfterCall ==
    /\ Running
    /\ Top.pc = "L153"
    /\ IF Propagates(Top.fileInfo, Top.err)
       THEN Return(Top.err)
       ELSE /\ stack' = SetTop([Top EXCEPT !.pc = "L144"])
            /\ UNCHANGED <<pc, werr>>
    /\ UNCHANGED <<opt, tree, start, ret, cancelled, fails, changes, log>>

\* the range over names is exhausted: return nil
walkLoopEnd ==
    /\ Running
    /\ Top.pc = "L144"
    /\ Top.idx = Len(Top.names)
    /\ Return(Nil)
    /\ UNCHANGED <<opt, tree, start, ret, cancelled, fails, changes, log>>

----------------------------------------------------------------------------
(* The environment: the context and the remote repository *)

\* the deadline of ctx passes, or its cancel function is called
CtxCancel ==
    /\ pc # "done"
    /\ ~cancelled
    /\ cancelled' = TRUE
    /\ UNCHANGED <<opt, tree, start, pc, stack, werr, ret, fails, changes, log>>

\* somebody removes a path (and all below it) from the ref being walked
RemoteRemove ==
    /\ pc # "done"
    /\ changes < MaxChanges
    /\ \E p \in Nodes(tree) :
        tree' = [q \in {n \in Nodes(tree) : ~IsPrefix(p, n)} |-> tree[q]]
    /\ changes' = changes + 1
    /\ UNCHANGED <<opt, start, pc, stack, werr, ret, cancelled, fails, log>>

Addable == {<<"testdata", "c">>, <<"testdata", "dir", "a">>, <<"x">>}

\* somebody adds a file to the ref being walked
RemoteAdd ==
    /\ pc # "done"
    /\ changes < MaxChanges
    /\ \E p \in Addable \ Nodes(tree) :
        /\ IsRemoteDir(tree, Dir(p))
        /\ tree' = tree @@ (p :> "file")
    /\ changes' = changes + 1
    /\ UNCHANGED <<opt, start, pc, stack, werr, ret, cancelled, fails, log>>

Next ==
    \/ WalkStat
    \/ WalkVisitErr
    \/ WalkReturn
    \/ walkLeaf
    \/ walkReadDirNames
    \/ walkVisitDir
    \/ walkStatChild
    \/ walkVisitChildErr
    \/ walkAfterCall
    \/ walkLoopEnd
    \/ CtxCancel
    \/ RemoteRemove
    \/ RemoteAdd

Spec == Init /\ [][Next]_vars

\* a step of the goroutine that called Walk
Step ==
    \/ WalkStat
    \/ WalkVisitErr
    \/ WalkReturn
    \/ walkLeaf
    \/ walkReadDirNames
    \/ walkVisitDir
    \/ walkStatChild
    \/ walkVisitChildErr
    \/ walkAfterCall
    \/ walkLoopEnd

NextLive ==
    \/ Step
    \/ CtxCancel

\* the walk of a tree that does not change: the goroutine keeps running, every
\* remote call and every call of walkFn returns
LiveSpec == Init /\ [][NextLive]_vars /\ WF_vars(Step)

----------------------------------------------------------------------------
(* The walk with the options of the specification: sibling order reversed on *)
(* request, and a filter consulted for each child before it is resolved.     *)
(* The code under src/ has neither; what follows is taken from spec.md 4.2.  *)

Reverse(names) == [i \in 1..Len(names) |-> names[Len(names) + 1 - i]]

\* the reverse flag ignored
OrderedAscending(names) == names

\* ListChildren: ascending by default, descending when options.reverse is set
Ordered(names) == IF opt.reverse THEN Reverse(names) ELSE names

ContainsSub(s, pat) == \E k \in 0..(Len(s) - Len(pat)) : SubSeq(s, k + 1, k + Len(pat)) = pat

\* the filter hook: "contains_dir" vetoes every path that contains "dir",
\* "base_dir" the paths whose last component is "dir"
Filtered(path) ==
    CASE opt.filter = "none" -> FALSE
      [] opt.filter = "contains_dir" ->
            \E k \in 1..Len(path) : ContainsSub(Chars(path[k]), Chars("dir"))
      [] opt.filter = "base_dir" -> Base(path) = "dir"

readDirNamesOpt(path) == {[r EXCEPT !.names = Ordered(r.names)] : r \in readDirNames(path)}

\* step 4: ListChildren(path)
walkReadDirNamesOpt ==
    /\ Running
    /\ Top.pc = "L127"
    /\ ~IsLeaf(Top.info)
    /\ \E r \in readDirNamesOpt(Top.path) :
        /\ stack' = SetTop([Top EXCEPT !.names = r.names, !.err = r.err, !.pc = "L132"])
        /\ fails' = fails + r.failed
        /\ log' = Append(log, ListEvent(Top.path, r.err, r.names))
    /\ UNCHANGED <<opt, tree, start, pc, werr, ret, cancelled, changes>>

NextIsFiltered ==
    /\ Running
    /\ Top.pc = "L144"
    /\ Top.idx < Len(Top.names)
    /\ Filtered(Join(Top.path, Top.names[Top.idx + 1]))

\* step 5b: a vetoed child is skipped with no remote call and no visitor invocation
walkFilterChild ==
    /\ NextIsFiltered
    /\ stack' = SetTop([Top EXCEPT !.idx = @ + 1])
    /\ UNCHANGED <<opt, tree, start, pc, werr, ret, cancelled, fails, changes, log>>

\* the filter is not consulted before the child is resolved
walkStatChildAlways == walkStatChild

\* steps 5c-5e: a child that is not vetoed is resolved as the code does
walkStatChildOpt == ~NextIsFiltered /\ walkStatChild

Options == [reverse : BOOLEAN, filter : {"none", "contains_dir", "base_dir"}]

InitOpt ==
    /\ tree = TestTree
    /\ start \in {<<>>, <<"testdata">>}
    /\ pc = "L112"
    /\ stack = <<>>
    /\ werr = Nil
    /\ ret = Nil
    /\ cancelled = FALSE
    /\ fails = 0
    /\ changes = 0
    /\ log = <<>>
    /\ opt \in Options \ {NoOptions}

NextOpt ==
    \/ WalkStat
    \/ WalkVisitErr
    \/ WalkReturn
    \/ walkLeaf
    \/ walkReadDirNamesOpt
    \/ walkVisitDir
    \/ walkFilterChild
    \/ walkStatChildOpt
    \/ walkVisitChildErr
    \/ walkAfterCall
    \/ walkLoopEnd
    \/ CtxCancel

SpecOpt == InitOpt /\ [][NextOpt]_vars

----------------------------------------------------------------------------
(* Reading the history *)

VisitIdx == {i \in 1..Len(log) : log[i].ev = "visit"}
RemoteIdx == {i \in 1..Len(log) : log[i].ev = "remote"}
IsVisit(e) == e.ev = "visit"
Visits == SelectSeq(log, IsVisit)
VisitPaths == [i \in 1..Len(Visits) |-> Visits[i].path]

\* the first visitor invocation after the i-th event, 0 when there is none
NextVisit(i) ==
    IF \E j \in VisitIdx : j > i
    THEN CHOOSE j \in VisitIdx : j > i /\ \A k \in VisitIdx : k > i => j <= k
    ELSE 0

AllVisitsNil == \A i \in VisitIdx : log[i].ret.kind = "nil"
AllVisitsNilBut(i) == \A j \in VisitIdx \ {i} : log[j].ret.kind = "nil"
NoRemoteFailure == \A i \in RemoteIdx : log[i].err.kind = "nil"

\* the nodes the walk from s has to reach in the tree t: s, and every node
\* below s all of whose ancestors from s on are directories
Reachable(t, s) ==
    {s} \cup {p \in Nodes(t) : /\ IsProperPrefix(s, p)
                               /\ \A k \in Len(s)..(Len(p) - 1) : IsRemoteDir(t, SubSeq(p, 1, k))}

----------------------------------------------------------------------------
(* C1: the children of every directory Walk descends into are visited in     *)
(* strictly ascending bytewise order of their names, whatever the order of   *)
(* the remote listing; the tree of the test, walked from testdata with a     *)
(* visitor that returns nil, no failure and no change, is visited as         *)
(* testdata, testdata/a, testdata/b, testdata/dir, testdata/dir/c,           *)
(* testdata/link_dir.                                                        *)

ExamplePaths ==
    << <<"testdata">>, <<"testdata", "a">>, <<"testdata", "b">>, <<"testdata", "dir">>,
       <<"testdata", "dir", "c">>, <<"testdata", "link_dir">> >>

C1_LexicalOrder ==
    /\ \A i, j \in VisitIdx :
        (/\ i < j
         /\ Len(log[i].path) > 0
         /\ Len(log[i].path) = Len(log[j].path)
         /\ Dir(log[i].path) = Dir(log[j].path))
        => BytesLess(Chars(Base(log[i].path)), Chars(Base(log[j].path)))
    /\ (/\ pc = "done"
        /\ start = <<"testdata">>
        /\ changes = 0
        /\ NoRemoteFailure
        /\ AllVisitsNil)
       => VisitPaths = ExamplePaths

C1_Witness ==
    /\ pc = "done"
    /\ start = <<"testdata">>
    /\ changes = 0
    /\ NoRemoteFailure
    /\ AllVisitsNil
    /\ Len(Visits) = 6

(* C2: with no failing remote call, an unchanged tree and a visitor that     *)
(* always returns nil, the visitor is invoked exactly once for the starting  *)
(* path and for every node reachable from it through directories, and Walk   *)
(* returns nil.                                                              *)

C2_VisitsEachNodeOnce ==
    (/\ pc = "done"
     /\ changes = 0
     /\ NoRemoteFailure
     /\ AllVisitsNil)
    => /\ {Visits[i].path : i \in 1..Len(Visits)} = Reachable(tree, start)
       /\ Len(Visits) = Cardinality(Reachable(tree, start))
       /\ ret.kind = "nil"

C2_Witness ==
    /\ pc = "done"
    /\ start = <<>>
    /\ changes = 0
    /\ NoRemoteFailure
    /\ AllVisitsNil
    /\ Len(Visits) = 7

(* C3: when the visitor returns SkipDir for a directory, it is never invoked  *)
(* on a descendant of that directory, and the walk goes on with the          *)
(* directory's next sibling: the next invocation is for that sibling, and    *)
(* when every other invocation returns nil all the later siblings are        *)
(* visited.                                                                  *)

IsDirSkip(e) ==
    /\ e.ev = "visit"
    /\ e.ret.kind = "SkipDir"
    /\ (e.info.Type = "dir" \/ e.path = <<>>)

\* the names that follow the visited one in the listing of its parent
LaterSiblings(e) == IF e.rest = <<>> THEN <<>> ELSE e.rest[Len(e.rest)].names

C3_SkipDirOnDirectory ==
    \A i \in VisitIdx : IsDirSkip(log[i]) =>
        /\ \A j \in VisitIdx : j > i => ~IsProperPrefix(log[i].path, log[j].path)
        /\ LaterSiblings(log[i]) # <<>> =>
            /\ NextVisit(i) # 0 =>
                log[NextVisit(i)].path = Append(Dir(log[i].path), Head(LaterSiblings(log[i])))
            /\ pc = "done" => NextVisit(i) # 0
            /\ (pc = "done" /\ AllVisitsNilBut(i)) =>
                \A n \in 1..Len(LaterSiblings(log[i])) :
                    \E j \in VisitIdx :
                        j > i /\ log[j].path = Append(Dir(log[i].path), LaterSiblings(log[i])[n])

C3_Witness ==
    /\ pc = "done"
    /\ changes = 0
    /\ \E i \in VisitIdx :
        /\ IsDirSkip(log[i])
        /\ log[i].path = <<"testdata", "dir">>
        /\ log[i].err.kind = "nil"
        /\ \E j \in VisitIdx : j > i /\ log[j].path = <<"testdata", "link_dir">>

(* C4: when the visitor returns SkipDir for a file or a symlink, no later    *)
(* sibling of that entry is visited; the walk goes on with the next pending  *)
(* name of the nearest enclosing directory above the parent that has one,    *)
(* all pending names of those directories being visited when every other     *)
(* invocation returns nil; and Walk returns nil when no invocation returns   *)
(* an error other than SkipDir.                                              *)

IsLeafSkip(e) ==
    /\ e.ev = "visit"
    /\ e.ret.kind = "SkipDir"
    /\ e.info.Type \in {"file", "symlink"}

\* the enclosing directories above the parent that have names left to iterate
PendingAbove(e) == {k \in 1..(Len(e.rest) - 1) : e.rest[k].names # <<>>}
Nearest(e) == CHOOSE k \in PendingAbove(e) : \A m \in PendingAbove(e) : m <= k

C4_SkipDirOnLeaf ==
    \A i \in VisitIdx : IsLeafSkip(log[i]) =>
        /\ \A j \in VisitIdx :
            j > i => ~(/\ Len(log[j].path) = Len(log[i].path)
                       /\ Dir(log[j].path) = Dir(log[i].path))
        /\ PendingAbove(log[i]) # {} =>
            /\ NextVisit(i) # 0 =>
                log[NextVisit(i)].path =
                    Append(log[i].rest[Nearest(log[i])].dir,
                           Head(log[i].rest[Nearest(log[i])].names))
            /\ pc = "done" => NextVisit(i) # 0
        /\ (pc = "done" /\ AllVisitsNilBut(i)) =>
            \A k \in PendingAbove(log[i]) : \A n \in 1..Len(log[i].rest[k].names) :
                \E j \in VisitIdx :
                    j > i /\ log[j].path = Append(log[i].rest[k].dir, log[i].rest[k].names[n])
        /\ (pc = "done" /\ \A j \in VisitIdx : log[j].ret.kind \in {"nil", "SkipDir"}) =>
            ret.kind = "nil"

C4_Witness ==
    /\ pc = "done"
    /\ changes = 0
    /\ start = <<>>
    /\ \E i \in VisitIdx :
        /\ IsLeafSkip(log[i])
        /\ log[i].path = <<"testdata", "dir", "c">>
        /\ \E j \in VisitIdx : j > i /\ log[j].path = <<"testdata", "link_dir">>

(* C5: when a visitor invocation returns a value other than nil and SkipDir, *)
(* it is the last event of the walk (no visitor invocation and no remote     *)
(* call follows) and Walk returns that value.                                *)

IsAbort(e) == e.ev = "visit" /\ e.ret.kind \notin {"nil", "SkipDir"}

C5_ErrorStopsWalk ==
    \A i \in VisitIdx : IsAbort(log[i]) =>
        /\ i = Len(log)
        /\ pc = "done" => ret = log[i].ret

C5_Witness ==
    /\ pc = "done"
    /\ ret.kind = "User"
    /\ IsAbort(log[Len(log)])
    /\ log[Len(log)].path = <<"testdata", "dir", "c">>
    /\ start = <<>>

(* C6: when the listing of the parent of the starting path succeeds and      *)
(* holds no child of that name, the whole walk makes exactly one visitor     *)
(* invocation: for the starting path, with a nil info and a not-found error  *)
(* naming the path; when the visitor returns that error Walk returns a       *)
(* non-nil error.                                                            *)

StartNotListed ==
    /\ Len(log) >= 1
    /\ log[1].ev = "remote"
    /\ log[1].op = "stat"
    /\ log[1].err.kind = "nil"
    /\ ~log[1].found

C6_StartNotFound ==
    StartNotListed =>
        /\ Len(log) <= 2
        /\ Len(log) = 2 =>
            /\ log[2].ev = "visit"
            /\ log[2].path = start
            /\ log[2].info.Type = "nil"
            /\ log[2].err = [kind |-> "NotFound", path |-> start]
        /\ pc = "done" =>
            /\ Len(log) = 2
            /\ log[2].ret = log[2].err => (ret.kind # "nil" /\ ret = log[2].err)

C6_Witness ==
    /\ pc = "done"
    /\ StartNotListed
    /\ start = <<"testdata", "non_existent">>
    /\ Len(log) = 2
    /\ log[2].ret.kind = "NotFound"
    /\ ret.kind = "NotFound"

(* C7: when the visitor answers SkipDir to the not-found error of the        *)
(* starting path, no visitor invocation follows and Walk returns nil.        *)

IsStartNotFoundSkip(e) ==
    /\ e.ev = "visit"
    /\ e.path = start
    /\ e.err.kind = "NotFound"
    /\ e.ret.kind = "SkipDir"

C7_SkipOnStartNotFound ==
    \A i \in VisitIdx : IsStartNotFoundSkip(log[i]) =>
        /\ VisitIdx = {i}
        /\ i = Len(log)
        /\ pc = "done" => ret.kind = "nil"

C7_Witness ==
    /\ pc = "done"
    /\ ret.kind = "nil"
    /\ start = <<"testdata", "non_existent">>
    /\ Len(log) = 2
    /\ IsStartNotFoundSkip(log[2])

(* C8: Walk never returns SkipDir: what it returns is nil, or an error other *)
(* than SkipDir that some visitor invocation returned.                       *)

C8_NeverReturnsSkipDir ==
    pc = "done" =>
        /\ ret.kind # "SkipDir"
        /\ ret.kind # "nil" => \E i \in VisitIdx : log[i].ret = ret

C8_Witness ==
    /\ pc = "done"
    /\ ret.kind = "nil"
    /\ \E i \in VisitIdx : log[i].ret.kind = "SkipDir" /\ log[i].path = start

(* C9: every visitor invocation that carries a non-nil error carries a nil   *)
(* info.                                                                     *)

C9_InfoNilOnError ==
    \A i \in VisitIdx : log[i].err.kind # "nil" => log[i].info.Type = "nil"

(* C10: the error of a failed remote call is passed, unchanged, to the       *)
(* visitor for the path being resolved in the very next event, before any    *)
(* other remote call, and the walk does not end without that invocation;     *)
(* every visitor invocation that carries an error follows the remote call    *)
(* that produced it.                                                         *)

C10_RemoteErrorsReachVisitor ==
    /\ \A i \in RemoteIdx : log[i].err.kind # "nil" =>
        /\ i < Len(log) =>
            /\ log[i + 1].ev = "visit"
            /\ log[i + 1].path = log[i].path
            /\ log[i + 1].err = log[i].err
        /\ pc = "done" => i < Len(log)
    /\ \A i \in VisitIdx : log[i].err.kind # "nil" =>
        /\ i > 1
        /\ log[i - 1].ev = "remote"
        /\ log[i - 1].path = log[i].path
        /\ log[i - 1].err.kind # "nil" => log[i - 1].err = log[i].err
        /\ log[i - 1].err.kind = "nil" => log[i].err.kind = "NotFound"

C10_Witness ==
    /\ pc = "done"
    /\ \E i \in RemoteIdx :
        /\ log[i].op = "stat"
        /\ log[i].path = <<"testdata", "b">>
        /\ log[i].err.kind = "Canceled"
        /\ log[i + 1].ev = "visit"
        /\ log[i + 1].ret.kind = "nil"
        /\ i + 2 <= Len(log)
        /\ log[i + 2].err.kind = "Canceled"

(* C11: one remote call per directory and no stat remote call per child.     *)
(* As stated: the remote calls that fetch the content of a directory the     *)
(* walk descends into (its listing, and the stats of its children, which     *)
(* list it again) number one.                                                *)

IsDescended(e) ==
    /\ e.ev = "visit"
    /\ e.err.kind = "nil"
    /\ e.ret.kind = "nil"
    /\ (e.info.Type = "dir" \/ e.info.Type = "nil")

ListCalls(d) == {i \in RemoteIdx : log[i].op = "list" /\ log[i].path = d}
ChildStatCalls(d) ==
    {i \in RemoteIdx : /\ log[i].op = "stat"
                       /\ Len(log[i].path) = Len(d) + 1
                       /\ SubSeq(log[i].path, 1, Len(d)) = d
                       /\ log[i].path # start}

C11_OneCallPerDirectory ==
    \A v \in VisitIdx : IsDescended(log[v]) =>
        Cardinality(ListCalls(log[v].path) \cup ChildStatCalls(log[v].path)) = 1

(* C11, amended: a directory the walk descends into costs one listing call   *)
(* and one stat call per listed name (each a listing of the directory        *)
(* again): never more than one stat per name, none for a name that was not   *)
(* listed, and exactly 1 + n calls for n names when the walk finishes with   *)
(* every invocation returning nil.                                           *)

\* (names is <<>> when the listing failed)
ListedNames(d) == UNION {{log[i].names[k] : k \in 1..Len(log[i].names)} : i \in ListCalls(d)}

C11_OneStatPerChild ==
    \A v \in VisitIdx : IsDescended(log[v]) =>
        LET d == log[v].path IN
        /\ Cardinality(ListCalls(d)) = 1
        /\ \A i \in ChildStatCalls(d) :
            /\ log[i].path[Len(d) + 1] \in ListedNames(d)
            /\ \A j \in ChildStatCalls(d) : log[j].path = log[i].path => i = j
        /\ (pc = "done" /\ AllVisitsNil) =>
            Cardinality(ListCalls(d) \cup ChildStatCalls(d)) = 1 + Cardinality(ListedNames(d))

C11_Witness ==
    /\ pc = "done"
    /\ AllVisitsNil
    /\ changes = 0
    /\ \E v \in VisitIdx :
        /\ IsDescended(log[v])
        /\ log[v].path = <<"testdata">>
        /\ Cardinality(ChildStatCalls(log[v].path)) = 4

(* C12: a symlink is not followed: it is visited as a leaf exactly once, no   *)
(* listing remote call is made for its path and no path below it is passed   *)
(* to the visitor.                                                           *)

IsSymlinkVisit(e) == e.ev = "visit" /\ e.info.Type = "symlink"

C12_SymlinkNotFollowed ==
    \A i \in VisitIdx : IsSymlinkVisit(log[i]) =>
        /\ log[i].err.kind = "nil"
        /\ \A j \in VisitIdx : log[j].path = log[i].path => j = i
        /\ \A j \in RemoteIdx : ~(log[j].op = "list" /\ log[j].path = log[i].path)
        /\ \A j \in 1..Len(log) : ~IsProperPrefix(log[i].path, log[j].path)

C12_Witness ==
    /\ pc = "done"
    /\ AllVisitsNil
    /\ \E i \in VisitIdx :
        /\ IsSymlinkVisit(log[i])
        /\ log[i].path = <<"testdata", "link_dir">>
        /\ i = Len(log)

(* C13: walking the root (the empty path) makes no stat remote call for the  *)
(* root: the first event is the listing of the root, the first visitor       *)
(* invocation is for the empty path with a nil info and the error of that    *)
(* listing (nil when it succeeded), and the top-level entries are then       *)
(* visited in ascending order under paths of one non-empty component.        *)

C13_RootWalk ==
    start = <<>> =>
        /\ \A i \in RemoteIdx : ~(log[i].op = "stat" /\ log[i].path = <<>>)
        /\ Len(log) >= 1 => (log[1].ev = "remote" /\ log[1].op = "list" /\ log[1].path = <<>>)
        /\ Len(log) >= 2 =>
            /\ log[2].ev = "visit"
            /\ log[2].path = <<>>
            /\ log[2].info.Type = "nil"
            /\ log[2].err = log[1].err
        /\ \A i \in VisitIdx : i > 2 =>
            /\ Len(log[i].path) >= 1
            /\ \A k \in 1..Len(log[i].path) : log[i].path[k] # ""
            /\ log[i].path[1] \in ListedNames(<<>>)
        /\ \A i, j \in VisitIdx :
            (i < j /\ Len(log[i].path) = 1 /\ Len(log[j].path) = 1)
            => BytesLess(Chars(log[i].path[1]), Chars(log[j].path[1]))
        /\ pc = "done" => Len(log) >= 2

C13_Witness ==
    /\ pc = "done"
    /\ start = <<>>
    /\ log[2].err.kind = "nil"
    /\ \E i, j \in VisitIdx :
        /\ i < j
        /\ log[i].path = <<"testdata">>
        /\ log[j].path = <<"x">>
        /\ log[j].info.Type = "file"

(* C14: with the reverse option set, the children of every directory are    *)
(* visited in descending bytewise order of name, every directory before its  *)
(* own children; the tree of the test walked from testdata with reverse set, *)
(* no filter, no failure and a visitor that returns nil is visited as        *)
(* testdata, testdata/link_dir, testdata/dir, testdata/dir/c, testdata/b,    *)
(* testdata/a.                                                               *)

ReverseExamplePaths ==
    << <<"testdata">>, <<"testdata", "link_dir">>, <<"testdata", "dir">>,
       <<"testdata", "dir", "c">>, <<"testdata", "b">>, <<"testdata", "a">> >>

C14_ReverseOrder ==
    opt.reverse =>
        /\ \A i, j \in VisitIdx :
            (/\ i < j
             /\ Len(log[i].path) > 0
             /\ Len(log[i].path) = Len(log[j].path)
             /\ Dir(log[i].path) = Dir(log[j].path))
            => BytesLess(Chars(Base(log[j].path)), Chars(Base(log[i].path)))
        /\ \A j \in VisitIdx : log[j].path # start =>
            \E i \in VisitIdx : i < j /\ log[i].path = Dir(log[j].path)
        /\ (/\ pc = "done"
            /\ start = <<"testdata">>
            /\ opt.filter = "none"
            /\ NoRemoteFailure
            /\ AllVisitsNil)
           => VisitPaths = ReverseExamplePaths

C14_Witness ==
    /\ pc = "done"
    /\ opt.reverse
    /\ start = <<"testdata">>
    /\ opt.filter = "none"
    /\ NoRemoteFailure
    /\ AllVisitsNil
    /\ Len(Visits) = 6

(* C15: a child for which the configured filter returns true gets no remote  *)
(* call and no visitor invocation, nor does anything below it; its siblings  *)
(* for which the filter returns false are still visited (all of them when    *)
(* the walk finishes with every invocation returning nil).                   *)

\* the path, or a directory above it and below the starting path, is vetoed
UnderVeto(path) ==
    \E k \in (Len(start) + 1)..Len(path) : Filtered(SubSeq(path, 1, k))

C15_FilterSkipsChild ==
    /\ \A i \in 1..Len(log) : ~UnderVeto(log[i].path)
    /\ (pc = "done" /\ AllVisitsNil) =>
        \A v \in VisitIdx : IsDescended(log[v]) =>
            \A n \in ListedNames(log[v].path) :
                ~Filtered(Append(log[v].path, n)) =>
                    \E j \in VisitIdx : log[j].path = Append(log[v].path, n)

C15_Witness ==
    /\ pc = "done"
    /\ opt.filter = "contains_dir"
    /\ start = <<"testdata">>
    /\ NoRemoteFailure
    /\ AllVisitsNil
    /\ {Visits[i].path : i \in 1..Len(Visits)} =
            {<<"testdata">>, <<"testdata", "a">>, <<"testdata", "b">>}
    /\ ListedNames(<<"testdata">>) = {"a", "b", "dir", "link_dir"}

(* C16: the walk is pre-order and depth-first: every directory from the      *)
(* starting path down is passed to the visitor before any of its             *)
(* descendants, and every invocation for a descendant of a directory comes   *)
(* before the invocation for any sibling visited after that directory.       *)

IsSibling(p, q) == Len(p) = Len(q) /\ Len(p) > 0 /\ Dir(p) = Dir(q) /\ p # q

C16_PreOrderDepthFirst ==
    /\ \A j \in VisitIdx : \A n \in Len(start)..(Len(log[j].path) - 1) :
        \E i \in VisitIdx : i < j /\ log[i].path = SubSeq(log[j].path, 1, n)
    /\ \A i, j, k \in VisitIdx :
        (/\ i < j
         /\ i < k
         /\ IsProperPrefix(log[i].path, log[j].path)
         /\ IsSibling(log[i].path, log[k].path))
        => j < k

C16_Witness ==
    /\ pc = "done"
    /\ start = <<>>
    /\ \E i, j, k \in VisitIdx :
        /\ i < j
        /\ j < k
        /\ log[i].path = <<"testdata", "dir">>
        /\ log[j].path = <<"testdata", "dir", "c">>
        /\ log[k].path = <<"testdata", "link_dir">>

(* C17: when the stat of a child fails during the iteration of a directory,  *)
(* the visitor is invoked once for the child's path with a nil info and that *)
(* error (the client's, or not-found for a name missing from the listing);   *)
(* after nil or SkipDir the next event is the stat of the child's next       *)
(* sibling, and any other value ends the walk and is what Walk returns.      *)

IsFailedChildStat(e) ==
    /\ e.ev = "remote"
    /\ e.op = "stat"
    /\ e.path # start
    /\ (e.err.kind # "nil" \/ ~e.found)

StatError(e) == IF e.err.kind # "nil" THEN e.err ELSE [kind |-> "NotFound", path |-> e.path]

IsStatOf(e, path) == e.ev = "remote" /\ e.op = "stat" /\ e.path = path

C17_ChildStatFailure ==
    \A r \in RemoteIdx : IsFailedChildStat(log[r]) =>
        /\ pc = "done" => r < Len(log)
        /\ r < Len(log) =>
            /\ log[r + 1].ev = "visit"
            /\ log[r + 1].path = log[r].path
            /\ log[r + 1].info.Type = "nil"
            /\ log[r + 1].err = StatError(log[r])
            /\ \A j \in VisitIdx : log[j].path = log[r].path => j = r + 1
            /\ IF log[r + 1].ret.kind \in {"nil", "SkipDir"}
               THEN LaterSiblings(log[r + 1]) # <<>> =>
                        /\ pc = "done" => r + 2 <= Len(log)
                        /\ r + 2 <= Len(log) =>
                            IsStatOf(log[r + 2], Append(Dir(log[r].path),
                                                        Head(LaterSiblings(log[r + 1]))))
               ELSE /\ r + 1 = Len(log)
                    /\ pc = "done" => ret = log[r + 1].ret

C17_Witness ==
    /\ pc = "done"
    /\ \E r \in RemoteIdx :
        /\ IsFailedChildStat(log[r])
        /\ log[r].path = <<"testdata", "a">>
        /\ r + 2 <= Len(log)
        /\ log[r + 1].ret.kind = "SkipDir"
        /\ IsStatOf(log[r + 2], <<"testdata", "b">>)
        /\ log[r + 2].found

(* C18: when the listing of a directory fails, the visitor is invoked once   *)
(* for the directory with the listing error and nothing below it is resolved *)
(* or visited; after nil or SkipDir the walk goes on with the stat of the    *)
(* directory's next sibling, or Walk returns nil when the directory is the   *)
(* starting path; any other value ends the walk and is what Walk returns.    *)

IsFailedListing(e) == e.ev = "remote" /\ e.op = "list" /\ e.err.kind # "nil"

C18_ListingFailure ==
    \A r \in RemoteIdx : IsFailedListing(log[r]) =>
        /\ pc = "done" => r < Len(log)
        /\ \A j \in 1..Len(log) : ~IsProperPrefix(log[r].path, log[j].path)
        /\ r < Len(log) =>
            /\ log[r + 1].ev = "visit"
            /\ log[r + 1].path = log[r].path
            /\ log[r + 1].err = log[r].err
            /\ \A j \in VisitIdx : log[j].path = log[r].path => j = r + 1
            /\ IF log[r + 1].ret.kind \in {"nil", "SkipDir"}
               THEN /\ log[r].path = start =>
                        /\ r + 1 = Len(log)
                        /\ pc = "done" => ret.kind = "nil"
                    /\ LaterSiblings(log[r + 1]) # <<>> =>
                        /\ pc = "done" => r + 2 <= Len(log)
                        /\ r + 2 <= Len(log) =>
                            IsStatOf(log[r + 2], Append(Dir(log[r].path),
                                                        Head(LaterSiblings(log[r + 1]))))
               ELSE /\ r + 1 = Len(log)
                    /\ pc = "done" => ret = log[r + 1].ret

C18_Witness ==
    /\ pc = "done"
    /\ ret.kind = "nil"
    /\ \E r \in RemoteIdx :
        /\ IsFailedListing(log[r])
        /\ log[r].path = <<"testdata", "dir">>
        /\ r + 2 <= Len(log)
        /\ log[r + 1].ret.kind = "nil"
        /\ IsStatOf(log[r + 2], <<"testdata", "link_dir">>)

(* C19: on a finite tree that does not change, whatever the visitor returns  *)
(* and whichever remote calls fail (a cancelled context included), Walk      *)
(* eventually returns, having invoked the visitor at most as many times as   *)
(* there are nodes in the walked subtree (the starting path and the nodes    *)
(* below it).                                                                *)

Subtree == {start} \cup {p \in Nodes(tree) : IsProperPrefix(start, p)}

C19_Terminates == <>(pc = "done" /\ Len(Visits) <= Cardinality(Subtree))

C19_Witness ==
    /\ pc = "done"
    /\ cancelled
    /\ start = <<>>
    /\ Len(Visits) = 6
    /\ log[Len(log)].err.kind = "Canceled"
    /\ log[Len(log)].ret.kind = "nil"
    /\ \E i \in VisitIdx : log[i].path = <<"testdata", "a">> /\ log[i].err.kind = "nil"

(* C20: the listing of a directory and the stat of each listed child are     *)
(* separate remote calls.  When a listed child is gone by the time it is     *)
(* stat-ed, the visitor is invoked for its path with a nil info and a        *)
(* not-found error naming the path; after nil or SkipDir the next event is   *)
(* the stat of the name that follows it in the original listing; and every   *)
(* visited path below the starting path bears a name its directory's         *)
(* listing returned, so that a child added after the listing is not visited. *)

IsRemovedChildStat(e) ==
    /\ e.ev = "remote"
    /\ e.op = "stat"
    /\ e.path # start
    /\ e.err.kind = "nil"
    /\ ~e.found

\* the names the listing of d returned, and the position of name n in them
Listing(d) == log[CHOOSE i \in ListCalls(d) : TRUE].names
Position(names, n) == CHOOSE k \in 1..Len(names) : names[k] = n

C20_ListThenStat ==
    /\ \A r \in RemoteIdx : IsRemovedChildStat(log[r]) =>
        LET d == Dir(log[r].path)
            k == Position(Listing(d), Base(log[r].path)) IN
        /\ ListCalls(d) # {}
        /\ \A i \in ListCalls(d) : i < r
        /\ pc = "done" => r < Len(log)
        /\ r < Len(log) =>
            /\ log[r + 1].ev = "visit"
            /\ log[r + 1].path = log[r].path
            /\ log[r + 1].info.Type = "nil"
            /\ log[r + 1].err = [kind |-> "NotFound", path |-> log[r].path]
            /\ (log[r + 1].ret.kind \in {"nil", "SkipDir"} /\ k < Len(Listing(d))) =>
                /\ pc = "done" => r + 2 <= Len(log)
                /\ r + 2 <= Len(log) => IsStatOf(log[r + 2], Append(d, Listing(d)[k + 1]))
    /\ \A j \in VisitIdx : log[j].path # start =>
        /\ \E i \in ListCalls(Dir(log[j].path)) : i < j
        /\ Base(log[j].path) \in ListedNames(Dir(log[j].path))

C20_Witness ==
    /\ pc = "done"
    /\ start = <<"testdata">>
    /\ \E r \in RemoteIdx :
        /\ IsRemovedChildStat(log[r])
        /\ log[r].path = <<"testdata", "b">>
        /\ r + 2 <= Len(log)
        /\ log[r + 1].ret.kind = "nil"
        /\ IsStatOf(log[r + 2], <<"testdata", "dir">>)
        /\ log[r + 2].found

C20_WitnessAdded ==
    /\ pc = "done"
    /\ start = <<"testdata">>
    /\ AllVisitsNil
    /\ NoRemoteFailure
    /\ <<"testdata", "c">> \in Nodes(tree)
    /\ \A j \in VisitIdx : log[j].path # <<"testdata", "c">>
    /\ \E j \in VisitIdx : log[j].path = <<"testdata", "link_dir">>

====
